---- MODULE Spec2Model ----
(***************************************************************************)
(* rclrs logging: the thread-safe facade over rcl's global logging state   *)
(* (src/rclrs/src/log/log_context.rs).  Threads call LogContext::init,     *)
(* LogContext::set_logger_level, LogContext::log and drop LogContext       *)
(* values; each call is a sequence of steps so that calls interleave.      *)
(***************************************************************************)
EXTENDS Integers, Sequences, FiniteSets, TLC

\* ---------------------------------------------------------------- bounds
NThreads == 2
NContexts == 1
MaxOps == 3

Threads == 1..NThreads
Contexts == 1..NContexts
NoThread == 0
External == -1

\* ------------------------------------------------------------- severities
RCUTILS_LOG_SEVERITY_DEBUG == 10
RCUTILS_LOG_SEVERITY_INFO == 20
RCUTILS_LOG_SEVERITY_WARN == 30
RCUTILS_LOG_SEVERITY_ERROR == 40
RCUTILS_LOG_SEVERITY_FATAL == 50

\* (mutant: an enum whose Warn and Error discriminants are exchanged)
LogSeverity_Swapped ==
    [Debug |-> RCUTILS_LOG_SEVERITY_DEBUG,
     Info  |-> RCUTILS_LOG_SEVERITY_INFO,
     Warn  |-> RCUTILS_LOG_SEVERITY_ERROR,
     Error |-> RCUTILS_LOG_SEVERITY_WARN,
     Fatal |-> RCUTILS_LOG_SEVERITY_FATAL]

\* enum LogSeverity: the discriminant of each variant.
LogSeverity ==
    [Debug |-> RCUTILS_LOG_SEVERITY_DEBUG,
     Info  |-> RCUTILS_LOG_SEVERITY_INFO,
     Warn  |-> RCUTILS_LOG_SEVERITY_WARN,
     Error |-> RCUTILS_LOG_SEVERITY_ERROR,
     Fatal |-> RCUTILS_LOG_SEVERITY_FATAL]

Severities == DOMAIN LogSeverity

\* (mutant: a cast that drops the high bits of the discriminant)
as_c_int_Narrow(sev) == LogSeverity[sev] % 16

\* `severity as c_int`: the isize discriminant truncated to 32 bits, signed.
\* (TLC's integers are 32 bits wide, so the wrap is written on halves.)
as_c_int(sev) ==
    LET d == LogSeverity[sev]
        lo == d % 65536
        hi == (d \div 65536) % 65536
    IN  IF hi >= 32768 THEN (hi - 65536) * 65536 + lo ELSE hi * 65536 + lo

\* ---------------------------------------------------------------- strings
\* A &str is a sequence of bytes; byte 0 is the terminator of a C string.
NUL == 0
StrEmpty == << >>
StrA == <<1>>
StrB == <<2>>
StrNul == <<1, 0, 2>>

HasNul(s) == \E i \in 1..Len(s) : s[i] = NUL

\* CString::new(s): Err(NulError) when s holds a 0 byte, else the bytes of s
\* followed by the terminator.
CString_new(s) ==
    IF HasNul(s) THEN [ok |-> FALSE, bytes |-> << >>]
    ELSE [ok |-> TRUE, bytes |-> s \o <<NUL>>]

\* What C reads through a `const char *`: the bytes before the first 0.
RECURSIVE c_str(_)
c_str(p) ==
    IF p = << >> \/ Head(p) = NUL THEN << >> ELSE <<Head(p)>> \o c_str(Tail(p))

\* A u32 line number, as two 16-bit halves <<high, low>>.
Line0 == <<0, 0>>
Line42 == <<0, 42>>
LineMax == <<65535, 65535>>

\* `line_num as usize`: zero-extension of the u32 to the 64-bit usize.
as_usize(l) == <<0, 0>> \o l

\* ----------------------------------------------------------------- inputs
NoArg ==
    [ctx |-> 0, fn_name |-> StrEmpty, file_name |-> StrEmpty, line_num |-> Line0,
     name |-> StrEmpty, severity |-> "Debug", message |-> StrEmpty]

LogArg(f, fl, l, n, s, m) ==
    [ctx |-> 0, fn_name |-> f, file_name |-> fl, line_num |-> l,
     name |-> n, severity |-> s, message |-> m]

LogInputs ==
    { LogArg(StrA, StrB, Line42, StrA, "Warn", StrB),
      LogArg(StrEmpty, StrEmpty, LineMax, StrEmpty, "Debug", StrEmpty),
      LogArg(StrNul, StrA, Line42, StrA, "Info", StrA),
      LogArg(StrA, StrA, Line42, StrA, "Fatal", StrNul) }

LevelArg(n, s) == [NoArg EXCEPT !.name = n, !.severity = s]

LevelInputs ==
    { LevelArg(StrA, "Error"), LevelArg(StrB, "Debug"), LevelArg(StrNul, "Warn") }

InitArg(c) == [NoArg EXCEPT !.ctx = c]

\* ------------------------------------------------------------------ state
VARIABLES
    GLOBAL_LOG_CONTEXT,  \* the Option in the global mutex: "None" or "Some"
    lock_owner,          \* the thread holding GLOBAL_LOG_CONTEXT's mutex, or NoThread
    poisoned,            \* the poison flag of GLOBAL_LOG_CONTEXT's mutex
    rcl_context_mtx,     \* per context: the holder of Context::rcl_context_mtx
    rcl,                 \* the foreign (rcl/rcutils) logging state: whether it is
                         \* configured, and the arguments it is working on
    heap,                \* number of live rcutils_log_location_t boxes
    pc,                  \* per thread: its position in the call it runs
    call,                \* per thread: the call it runs (NoCall when idle)
    last,                \* the call that ended most recently, and how it ended
    count                \* counters over the whole run

vars ==
    <<GLOBAL_LOG_CONTEXT, lock_owner, poisoned, rcl_context_mtx, rcl, heap,
      pc, call, last, count>>

\* The C values a call builds and gets: the CStrings, the location box, the
\* severity code, the foreign return value.
NoCArg ==
    [location |-> << >>, name |-> << >>, message |-> << >>, severity |-> 0, ret |-> "none"]

\* A call: the operation, its arguments, the C values built so far, the Option
\* it found in the mutex ("unknown" before it looked), what the foreign side
\* did during it, and whether a teardown had ended when it began.
NoCall ==
    [op |-> "none", arg |-> NoArg, c_arg |-> NoCArg, seen |-> "unknown",
     made |-> << >>, after_teardown |-> FALSE]

Init ==
    /\ GLOBAL_LOG_CONTEXT = "None"
    /\ lock_owner = NoThread
    /\ poisoned = FALSE
    /\ rcl_context_mtx = [c \in Contexts |-> NoThread]
    /\ rcl = [configured |-> FALSE, scratch |-> NoCArg]
    /\ heap = 0
    /\ pc = [t \in Threads |-> "idle"]
    /\ call = [t \in Threads |-> NoCall]
    /\ last = [thread |-> NoThread, call |-> NoCall, result |-> "none"]
    /\ count = [ops |-> 0, not_init |-> 0, configure |-> 0, configure_failed |-> 0,
                fini |-> 0]

\* ------------------------------------------------------------- the mutex
\* (mutant: lock() that does not wait for the holder)
MutexAvailable_NoExclusion == TRUE

\* Mutex::lock blocks while another thread holds the mutex.
MutexAvailable == lock_owner = NoThread

\* A teardown has ended: rcl_logging_fini was called and the drop that called
\* it has gone as far as it goes.
TeardownEnded ==
    /\ count.fini > 0
    /\ \A u \in Threads : pc[u] \notin {"drop_in_fini", "drop_store", "drop_nested_lock"}

\* A call begins: thread t is idle and starts operation o.
Begin(t, o, at) ==
    /\ pc[t] = "idle"
    /\ count.ops < MaxOps
    /\ pc' = [pc EXCEPT ![t] = at]
    /\ call' = [call EXCEPT ![t] =
                  [NoCall EXCEPT !.op = o, !.after_teardown = TeardownEnded]]
    /\ count' = [count EXCEPT !.ops = @ + 1,
                              !.not_init = IF o = "init" THEN @ ELSE @ + 1]
    /\ UNCHANGED <<GLOBAL_LOG_CONTEXT, lock_owner, poisoned, rcl_context_mtx, rcl,
                   heap, last>>

\* The call of t ends with r: `last` keeps it as it ended (its C values are
\* gone with its stack frame).
End(t, r, c) ==
    /\ pc' = [pc EXCEPT ![t] = "idle"]
    /\ call' = [call EXCEPT ![t] = NoCall]
    /\ last' = [thread |-> t, call |-> [c EXCEPT !.c_arg = NoCArg], result |-> r]

\* The call of t returns r; its MutexGuard goes out of scope.
Return(t, r, c) ==
    /\ End(t, r, c)
    /\ lock_owner' = NoThread

\* The call of t panics while it holds the MutexGuard: the unwinding drops the
\* guard, which poisons the mutex and unlocks it.
Panic(t, c) ==
    /\ End(t, "panic", c)
    /\ lock_owner' = NoThread
    /\ poisoned' = TRUE

\* lock().unwrap() on GLOBAL_LOG_CONTEXT: the guard when the mutex is free and
\* not poisoned; a panic (the PoisonError's guard is dropped at once, without
\* poisoning again) when it is poisoned.  The arguments a of the call are
\* fixed here: nothing reads them before.
lock_unwrap(t, a, next) ==
    /\ MutexAvailable
    /\ IF poisoned
       THEN /\ End(t, "panic", [call[t] EXCEPT !.arg = a, !.seen = GLOBAL_LOG_CONTEXT])
            /\ UNCHANGED lock_owner
       ELSE /\ pc' = [pc EXCEPT ![t] = next]
            /\ call' = [call EXCEPT ![t].arg = a]
            /\ lock_owner' = t
            /\ UNCHANGED last
    /\ UNCHANGED <<GLOBAL_LOG_CONTEXT, poisoned, rcl_context_mtx, rcl, heap, count>>

\* What the foreign side did is appended to the call's record.
Made(t, f, a) == [call[t] EXCEPT !.made = Append(@, [fn |-> f, a |-> a])]

\* --------------------------------------------------------- LogContext::init
init_call(t) ==
    /\ pc[t] = "idle"
    /\ Begin(t, "init", "init_lock")

init_lock(t, c) ==
    /\ pc[t] = "init_lock"
    /\ lock_unwrap(t, InitArg(c), "init_is_some")

\* (mutant: init without the is_some early return)
AlreadyCreated_Never == FALSE

\* `if global_context_guard.is_some()`
AlreadyCreated == GLOBAL_LOG_CONTEXT = "Some"

init_is_some(t) ==
    /\ pc[t] = "init_is_some"
    /\ IF AlreadyCreated
       THEN Return(t, "ok", [call[t] EXCEPT !.seen = GLOBAL_LOG_CONTEXT])
       ELSE /\ pc' = [pc EXCEPT ![t] = "init_ctx_lock"]
            /\ call' = [call EXCEPT ![t].seen = GLOBAL_LOG_CONTEXT]
            /\ UNCHANGED <<last, lock_owner>>
    /\ UNCHANGED <<GLOBAL_LOG_CONTEXT, poisoned, rcl_context_mtx, rcl, heap, count>>

\* (mutant: `let _ = ...lock()`, a guard that is dropped at once)
ContextGuardTaken_Discarded(t) == NoThread

\* The owner of the context mutex while `rcl_context_mtx_guard` is bound: the
\* guard lives to the end of the inner block.
ContextGuardTaken(t) == t

\* `rcl_context.rcl_context_mtx.lock().unwrap()`
init_ctx_lock(t) ==
    /\ pc[t] = "init_ctx_lock"
    /\ rcl_context_mtx[call[t].arg.ctx] = NoThread
    /\ rcl_context_mtx' = [rcl_context_mtx EXCEPT
                             ![call[t].arg.ctx] = ContextGuardTaken(t)]
    /\ pc' = [pc EXCEPT ![t] = "init_configure"]
    /\ UNCHANGED <<GLOBAL_LOG_CONTEXT, lock_owner, poisoned, rcl, heap, call, last, count>>

\* rcl_logging_configure_with_output_handler is entered.
init_configure(t) ==
    /\ pc[t] = "init_configure"
    /\ pc' = [pc EXCEPT ![t] = "init_in_configure"]
    /\ call' = [call EXCEPT ![t] =
                  Made(t, "rcl_logging_configure_with_output_handler", call[t].arg.ctx)]
    /\ count' = [count EXCEPT !.configure = @ + 1]
    /\ UNCHANGED <<GLOBAL_LOG_CONTEXT, lock_owner, poisoned, rcl_context_mtx, rcl, heap, last>>

\* rcl_logging_configure_with_output_handler returns RCL_RET_OK or an error.
init_configure_return(t, ok) ==
    /\ pc[t] = "init_in_configure"
    /\ pc' = [pc EXCEPT ![t] = "init_configured"]
    /\ rcl' = [rcl EXCEPT !.configured = IF ok THEN TRUE ELSE @]
    /\ call' = [call EXCEPT ![t].c_arg.ret = IF ok THEN "RCL_RET_OK" ELSE "RCL_RET_ERROR"]
    /\ count' = [count EXCEPT !.configure_failed = IF ok THEN @ ELSE @ + 1]
    /\ UNCHANGED <<GLOBAL_LOG_CONTEXT, lock_owner, poisoned, rcl_context_mtx, heap, last>>

\* (mutant: the result of the foreign call dropped instead of `?`)
ConfigureFailed_Ignored(t) == FALSE

\* `.ok()?`: an error return of the foreign call leaves init early.
ConfigureFailed(t) == call[t].c_arg.ret # "RCL_RET_OK"

\* (mutant: a context guard that outlives init)
ContextGuardDropped_Late(t) == t

\* The owner of the context mutex once the inner block has ended.
ContextGuardDropped(t) == NoThread

\* The inner block ends (or `?` returns): rcl_context_mtx_guard is dropped.
init_ctx_unlock(t) ==
    /\ pc[t] = "init_configured"
    /\ rcl_context_mtx' = [rcl_context_mtx EXCEPT
                             ![call[t].arg.ctx] = ContextGuardDropped(t)]
    /\ pc' = [pc EXCEPT ![t] = IF ConfigureFailed(t) THEN "init_err" ELSE "init_store"]
    /\ UNCHANGED <<GLOBAL_LOG_CONTEXT, lock_owner, poisoned, rcl, heap, call, last, count>>

\* `?` returns the error; global_context_guard is dropped.
init_err(t) ==
    /\ pc[t] = "init_err"
    /\ Return(t, "err", call[t])
    /\ UNCHANGED <<GLOBAL_LOG_CONTEXT, poisoned, rcl_context_mtx, rcl, heap, count>>

\* (mutant: init that stores None)
NewContext_None == "None"

\* `*global_context_guard = Some(LogContext {})`
NewContext == "Some"

\* The store (the old value is None: nothing is dropped) and `Ok(())`.
init_store(t) ==
    /\ pc[t] = "init_store"
    /\ GLOBAL_LOG_CONTEXT' = NewContext
    /\ Return(t, "ok", call[t])
    /\ UNCHANGED <<poisoned, rcl_context_mtx, rcl, heap, count>>

\* Code outside this module locks and unlocks a context's mutex.
external_lock(c) ==
    /\ rcl_context_mtx[c] = NoThread
    /\ rcl_context_mtx' = [rcl_context_mtx EXCEPT ![c] = External]
    /\ UNCHANGED <<GLOBAL_LOG_CONTEXT, lock_owner, poisoned, rcl, heap,
                   pc, call, last, count>>

external_unlock(c) ==
    /\ rcl_context_mtx[c] = External
    /\ rcl_context_mtx' = [rcl_context_mtx EXCEPT ![c] = NoThread]
    /\ UNCHANGED <<GLOBAL_LOG_CONTEXT, lock_owner, poisoned, rcl, heap,
                   pc, call, last, count>>

\* ------------------------------------------- LogContext::set_logger_level
set_logger_level_call(t) ==
    /\ pc[t] = "idle"
    /\ Begin(t, "set_logger_level", "set_lock")

set_logger_level_lock(t, a) ==
    /\ pc[t] = "set_lock"
    /\ lock_unwrap(t, a, "set_cstring")

\* `CString::new(logger_name).unwrap()` and `severity as c_int`
set_logger_level_cstring(t) ==
    /\ pc[t] = "set_cstring"
    /\ IF CString_new(call[t].arg.name).ok
       THEN /\ call' = [call EXCEPT
                          ![t].seen = GLOBAL_LOG_CONTEXT,
                          ![t].c_arg.name = CString_new(call[t].arg.name).bytes,
                          ![t].c_arg.severity = as_c_int(call[t].arg.severity)]
            /\ pc' = [pc EXCEPT ![t] = "set_level"]
            /\ UNCHANGED <<last, lock_owner, poisoned>>
       ELSE Panic(t, [call[t] EXCEPT !.seen = GLOBAL_LOG_CONTEXT])
    /\ UNCHANGED <<GLOBAL_LOG_CONTEXT, rcl_context_mtx, rcl, heap, count>>

\* rcutils_logging_set_logger_level is entered: it reads its arguments into
\* the foreign state.
set_logger_level_foreign(t) ==
    /\ pc[t] = "set_level"
    /\ pc' = [pc EXCEPT ![t] = "set_in_level"]
    /\ rcl' = [rcl EXCEPT !.scratch =
                 [NoCArg EXCEPT !.name = c_str(call[t].c_arg.name),
                                !.severity = call[t].c_arg.severity]]
    /\ UNCHANGED <<GLOBAL_LOG_CONTEXT, lock_owner, poisoned, rcl_context_mtx, heap,
                   call, last, count>>

\* rcutils_logging_set_logger_level sets the level from the foreign state and
\* returns; `.ok()` is the value of set_logger_level.
set_logger_level_return(t, ok) ==
    /\ pc[t] = "set_in_level"
    /\ Return(t, IF ok THEN "ok" ELSE "err",
              Made(t, "rcutils_logging_set_logger_level", rcl.scratch))
    /\ rcl' = [rcl EXCEPT !.scratch = NoCArg]
    /\ UNCHANGED <<GLOBAL_LOG_CONTEXT, poisoned, rcl_context_mtx, heap, count>>

\* ---------------------------------------------------------- LogContext::log
log_call(t) ==
    /\ pc[t] = "idle"
    /\ Begin(t, "log", "log_lock")

log_lock(t, a) ==
    /\ pc[t] = "log_lock"
    /\ lock_unwrap(t, a, "log_is_none")

\* `if global_logging_context_guard.is_none()`
NotInitialized == GLOBAL_LOG_CONTEXT = "None"

log_is_none(t) ==
    /\ pc[t] = "log_is_none"
    /\ IF NotInitialized
       THEN Return(t, "ok", [call[t] EXCEPT !.seen = GLOBAL_LOG_CONTEXT])
       ELSE /\ pc' = [pc EXCEPT ![t] = "log_location"]
            /\ call' = [call EXCEPT ![t].seen = GLOBAL_LOG_CONTEXT]
            /\ UNCHANGED <<last, lock_owner>>
    /\ UNCHANGED <<GLOBAL_LOG_CONTEXT, poisoned, rcl_context_mtx, rcl, heap, count>>

\* The two CStrings of the location, then Box::into_raw(Box::new(..)).
log_location(t) ==
    /\ pc[t] = "log_location"
    /\ IF CString_new(call[t].arg.fn_name).ok /\ CString_new(call[t].arg.file_name).ok
       THEN /\ call' = [call EXCEPT ![t].c_arg.location =
                          <<CString_new(call[t].arg.fn_name).bytes,
                            CString_new(call[t].arg.file_name).bytes,
                            as_usize(call[t].arg.line_num)>>]
            /\ heap' = heap + 1
            /\ pc' = [pc EXCEPT ![t] = "log_strings"]
            /\ UNCHANGED <<last, lock_owner, poisoned>>
       ELSE /\ Panic(t, call[t])
            /\ UNCHANGED heap
    /\ UNCHANGED <<GLOBAL_LOG_CONTEXT, rcl_context_mtx, rcl, count>>

\* The CStrings of name and message; a panic here leaves the box allocated.
log_strings(t) ==
    /\ pc[t] = "log_strings"
    /\ IF CString_new(call[t].arg.name).ok /\ CString_new(call[t].arg.message).ok
       THEN /\ call' = [call EXCEPT
                          ![t].c_arg.name = CString_new(call[t].arg.name).bytes,
                          ![t].c_arg.message = CString_new(call[t].arg.message).bytes,
                          ![t].c_arg.severity = as_c_int(call[t].arg.severity)]
            /\ pc' = [pc EXCEPT ![t] = "log_rcutils_log"]
            /\ UNCHANGED <<last, lock_owner, poisoned>>
       ELSE Panic(t, call[t])
    /\ UNCHANGED <<GLOBAL_LOG_CONTEXT, rcl_context_mtx, rcl, heap, count>>

\* What rcutils_log reads through the pointers it is given.
ReadByC(ca) ==
    [NoCArg EXCEPT !.location = <<c_str(ca.location[1]), c_str(ca.location[2]),
                                  ca.location[3]>>,
                   !.name = c_str(ca.name),
                   !.message = c_str(ca.message),
                   !.severity = ca.severity]

\* rcutils_log is entered: it reads its arguments into the foreign state.
log_rcutils_log(t) ==
    /\ pc[t] = "log_rcutils_log"
    /\ pc' = [pc EXCEPT ![t] = "log_in_rcutils_log"]
    /\ rcl' = [rcl EXCEPT !.scratch = ReadByC(call[t].c_arg)]
    /\ call' = [call EXCEPT ![t] = Made(t, "rcutils_log", ReadByC(call[t].c_arg))]
    /\ UNCHANGED <<GLOBAL_LOG_CONTEXT, lock_owner, poisoned, rcl_context_mtx, heap,
                   last, count>>

\* rcutils_log calls the output handler that init registered, on the calling
\* thread, with the values of the foreign state.
rclrc_logging_output_handler(t) ==
    /\ pc[t] = "log_in_rcutils_log"
    /\ pc' = [pc EXCEPT ![t] = "log_in_output_handler"]
    /\ call' = [call EXCEPT ![t] = Made(t, "rclrc_logging_output_handler", rcl.scratch)]
    /\ UNCHANGED <<GLOBAL_LOG_CONTEXT, lock_owner, poisoned, rcl_context_mtx, rcl, heap,
                   last, count>>

\* (mutant: a handler that forwards zeroed arguments)
HandlerParameters_Dropped(t) == NoCArg

\* The parameters rclrc_logging_output_handler was called with (location,
\* severity, logger name, timestamp, message, args).
HandlerParameters(t) == call[t].made[Len(call[t].made)].a

\* The handler forwards its parameters to rcl_logging_multiple_output_handler
\* and returns, and rcutils_log returns.
rcl_logging_multiple_output_handler(t) ==
    /\ pc[t] = "log_in_output_handler"
    /\ pc' = [pc EXCEPT ![t] = "log_from_raw"]
    /\ call' = [call EXCEPT ![t] =
                  Made(t, "rcl_logging_multiple_output_handler",
                       HandlerParameters(t))]
    /\ rcl' = [rcl EXCEPT !.scratch = NoCArg]
    /\ UNCHANGED <<GLOBAL_LOG_CONTEXT, lock_owner, poisoned, rcl_context_mtx, heap,
                   last, count>>

\* `let _ = Box::from_raw(log_location_ptr)` and the end of log.
log_from_raw(t) ==
    /\ pc[t] = "log_from_raw"
    /\ heap' = heap - 1
    /\ Return(t, "ok", call[t])
    /\ UNCHANGED <<GLOBAL_LOG_CONTEXT, poisoned, rcl_context_mtx, rcl, count>>

\* ------------------------------------------------------ Drop for LogContext
\* A LogContext value owned outside the global mutex goes out of scope.
drop_call(t) ==
    /\ pc[t] = "idle"
    /\ Begin(t, "drop", "drop_lock")

drop_lock(t) ==
    /\ pc[t] = "drop_lock"
    /\ lock_unwrap(t, NoArg, "drop_is_none")

\* (mutant: a drop without the is_none early return)
AlreadyUninitialized_Never == FALSE

\* `if global_context_guard.is_none()`
AlreadyUninitialized == GLOBAL_LOG_CONTEXT = "None"

drop_is_none(t) ==
    /\ pc[t] = "drop_is_none"
    /\ IF AlreadyUninitialized
       THEN Return(t, "ok", [call[t] EXCEPT !.seen = GLOBAL_LOG_CONTEXT])
       ELSE /\ pc' = [pc EXCEPT ![t] = "drop_fini"]
            /\ call' = [call EXCEPT ![t].seen = GLOBAL_LOG_CONTEXT]
            /\ UNCHANGED <<last, lock_owner>>
    /\ UNCHANGED <<GLOBAL_LOG_CONTEXT, poisoned, rcl_context_mtx, rcl, heap, count>>

\* rcl_logging_fini is entered.
drop_fini(t) ==
    /\ pc[t] = "drop_fini"
    /\ pc' = [pc EXCEPT ![t] = "drop_in_fini"]
    /\ call' = [call EXCEPT ![t] = Made(t, "rcl_logging_fini", 0)]
    /\ count' = [count EXCEPT !.fini = @ + 1]
    /\ UNCHANGED <<GLOBAL_LOG_CONTEXT, lock_owner, poisoned, rcl_context_mtx, rcl, heap, last>>

\* rcl_logging_fini returns; `.ok()` goes to `_unused`, whatever it is.
drop_fini_return(t, ok) ==
    /\ pc[t] = "drop_in_fini"
    /\ pc' = [pc EXCEPT ![t] = "drop_store"]
    /\ rcl' = [rcl EXCEPT !.configured = FALSE]
    /\ call' = [call EXCEPT ![t].c_arg.ret = IF ok THEN "RCL_RET_OK" ELSE "RCL_RET_ERROR"]
    /\ UNCHANGED <<GLOBAL_LOG_CONTEXT, lock_owner, poisoned, rcl_context_mtx, heap,
                   last, count>>

\* `*global_context_guard = None`: the value in the mutex is dropped before
\* None is stored.  When it is Some(LogContext), that is a call of this same
\* drop, on this thread, which holds the guard.
drop_store(t) ==
    /\ pc[t] = "drop_store"
    /\ IF GLOBAL_LOG_CONTEXT = "Some"
       THEN /\ pc' = [pc EXCEPT ![t] = "drop_nested_lock"]
            /\ UNCHANGED <<GLOBAL_LOG_CONTEXT, call, last, lock_owner>>
       ELSE /\ GLOBAL_LOG_CONTEXT' = "None"
            /\ Return(t, "ok", call[t])
    /\ UNCHANGED <<poisoned, rcl_context_mtx, rcl, heap, count>>

\* What Mutex::lock may do when the calling thread holds the mutex: std leaves
\* it unspecified, but the call does not return: it deadlocks or it panics.
RelockOutcomes == {"deadlock", "panic"}

\* The nested drop's `global_context.lock()`.  On a panic the unwinding
\* completes the assignment (None is stored) and drops the outer guard, which
\* poisons the mutex; the panic leaves the outer drop.
drop_nested_lock(t, outcome) ==
    /\ pc[t] = "drop_nested_lock"
    /\ lock_owner = t
    /\ IF outcome = "deadlock"
       THEN /\ pc' = [pc EXCEPT ![t] = "drop_deadlock"]
            /\ UNCHANGED <<GLOBAL_LOG_CONTEXT, call, last, lock_owner, poisoned>>
       ELSE /\ GLOBAL_LOG_CONTEXT' = "None"
            /\ Panic(t, call[t])
    /\ UNCHANGED <<rcl_context_mtx, rcl, heap, count>>

Next ==
    \/ \E t \in Threads : init_call(t)
    \/ \E t \in Threads, c \in Contexts : init_lock(t, c)
    \/ \E t \in Threads : init_is_some(t)
    \/ \E t \in Threads : init_ctx_lock(t)
    \/ \E t \in Threads : init_configure(t)
    \/ \E t \in Threads, ok \in BOOLEAN : init_configure_return(t, ok)
    \/ \E t \in Threads : init_ctx_unlock(t)
    \/ \E t \in Threads : init_err(t)
    \/ \E t \in Threads : init_store(t)
    \/ \E t \in Threads : set_logger_level_call(t)
    \/ \E t \in Threads, a \in LevelInputs : set_logger_level_lock(t, a)
    \/ \E t \in Threads : set_logger_level_cstring(t)
    \/ \E t \in Threads : set_logger_level_foreign(t)
    \/ \E t \in Threads, ok \in BOOLEAN : set_logger_level_return(t, ok)
    \/ \E t \in Threads : log_call(t)
    \/ \E t \in Threads, a \in LogInputs : log_lock(t, a)
    \/ \E t \in Threads : log_is_none(t)
    \/ \E t \in Threads : log_location(t)
    \/ \E t \in Threads : log_strings(t)
    \/ \E t \in Threads : log_rcutils_log(t)
    \/ \E t \in Threads : rclrc_logging_output_handler(t)
    \/ \E t \in Threads : rcl_logging_multiple_output_handler(t)
    \/ \E t \in Threads : log_from_raw(t)
    \/ \E t \in Threads : drop_call(t)
    \/ \E t \in Threads : drop_lock(t)
    \/ \E t \in Threads : drop_is_none(t)
    \/ \E t \in Threads : drop_fini(t)
    \/ \E t \in Threads, ok \in BOOLEAN : drop_fini_return(t, ok)
    \/ \E t \in Threads : drop_store(t)
    \/ \E t \in Threads, o \in RelockOutcomes : drop_nested_lock(t, o)
    \/ \E c \in Contexts : external_lock(c)
    \/ \E c \in Contexts : external_unlock(c)

Spec == Init /\ [][Next]_vars

\* ============================================================== properties
AtLock(t) == pc[t] \in {"init_lock", "set_lock", "log_lock", "drop_lock"}

\* Thread t is between the start and the return of a foreign primitive.
InForeign(t) ==
    pc[t] \in {"init_in_configure", "drop_in_fini", "set_in_level",
               "log_in_rcutils_log", "log_in_output_handler"}

InEmit(t) == pc[t] \in {"log_in_rcutils_log", "log_in_output_handler"}

\* C1: at most one thread is inside a foreign primitive (configure, finalize,
\* set-level, emit with the relay it triggers), that thread holds the global
\* lock, and no emit runs while a configure or finalize is in progress.
C1_ForeignCallsExclusive ==
    /\ \A t, u \in Threads : InForeign(t) /\ InForeign(u) => t = u
    /\ \A t \in Threads : InForeign(t) => lock_owner = t
    /\ \A t, u \in Threads :
         InEmit(t) => pc[u] \notin {"init_in_configure", "drop_in_fini"}

\* A thread is inside a foreign primitive while another waits for the lock.
C1_Witness ==
    \E t, u \in Threads : t # u /\ InForeign(t) /\ AtLock(u)

\* Only init calls have been started, and no configure has failed.
OnlyInitCalls == count.not_init = 0 /\ count.configure_failed = 0

\* C2: when threads only call init, from the Uninitialized state, and the
\* foreign configure succeeds, configure is invoked exactly once and every
\* init returns Ok.
C2_OneConfigure ==
    OnlyInitCalls =>
        /\ count.configure <= 1
        /\ last.call.op = "init" => last.result = "ok" /\ count.configure = 1

\* Every thread has called init, all calls have returned, one configure ran.
C2_Witness ==
    /\ OnlyInitCalls
    /\ count.ops >= NThreads
    /\ \A t \in Threads : pc[t] = "idle"
    /\ count.configure = 1
    /\ last.result = "ok"

\* The call of t ends in this step.
Ends(t) == pc[t] # "idle" /\ pc'[t] = "idle"

\* C3: the state is Uninitialized before any init, Initialized when an init
\* returns Ok, and goes from Initialized to Uninitialized only in a step of a
\* drop of LogContext.
C3_Lifecycle ==
    /\ [](count.ops = count.not_init => GLOBAL_LOG_CONTEXT = "None")
    /\ [][/\ \A t \in Threads :
               Ends(t) /\ call[t].op = "init" /\ last'.result = "ok"
                   => GLOBAL_LOG_CONTEXT' = "Some"
          /\ GLOBAL_LOG_CONTEXT = "Some" /\ GLOBAL_LOG_CONTEXT' = "None"
               => \E t \in Threads : call[t].op = "drop" /\ lock_owner = t /\ Ends(t)
         ]_vars

\* A drop has taken the state from Initialized back to Uninitialized.
C3_Witness ==
    /\ GLOBAL_LOG_CONTEXT = "None"
    /\ last.call.op = "drop"
    /\ last.call.seen = "Some"
    /\ count.fini > 0

\* C4 (as claimed): a drop that finds the state Initialized calls finalize
\* once, stores Uninitialized, releases the lock and returns normally; it
\* never blocks on the lock it holds itself.
C4_DropCompletes ==
    /\ \A t \in Threads : pc[t] # "drop_deadlock"
    /\ last.call.op = "drop" /\ Len(last.call.made) > 0 => last.result = "ok"

\* C5 (as claimed): an init that begins after a teardown does not fail on the
\* lock (it goes on to configure again), and is not left waiting for a lock
\* that is never released.
C5_ReinitAfterTeardown ==
    /\ last.call.op = "init" /\ last.call.after_teardown => last.result # "panic"
    /\ \A t, u \in Threads :
         call[t].op \in {"init", "log"} /\ call[t].after_teardown /\ AtLock(t)
             => pc[u] # "drop_deadlock"

\* C6 (as claimed): a log call that finds the state Uninitialized returns
\* normally and makes no foreign call, whatever its arguments.
C6_LogUninitialized ==
    last.call.op = "log" /\ last.call.seen = "None"
        => last.result = "ok" /\ last.call.made = << >>

NulFree(a) ==
    ~HasNul(a.fn_name) /\ ~HasNul(a.file_name) /\ ~HasNul(a.name) /\ ~HasNul(a.message)

\* The arguments of a log call as the foreign side should see them.
Delivered(a) ==
    [NoCArg EXCEPT !.location = <<a.fn_name, a.file_name, <<0, 0>> \o a.line_num>>,
                   !.name = a.name,
                   !.message = a.message,
                   !.severity = LogSeverity[a.severity]]

\* C7 (as claimed): a log call with terminator-free arguments, made while the
\* state is Initialized, gives exactly one rcutils_log call and exactly one
\* relay invocation, each carrying that call's own arguments.
C7_LogDeliveredOnce ==
    last.call.op = "log" /\ last.call.seen = "Some" /\ NulFree(last.call.arg)
        => /\ last.result = "ok"
           /\ last.call.made =
                <<[fn |-> "rcutils_log", a |-> Delivered(last.call.arg)],
                  [fn |-> "rclrc_logging_output_handler", a |-> Delivered(last.call.arg)],
                  [fn |-> "rcl_logging_multiple_output_handler",
                   a |-> Delivered(last.call.arg)]>>

\* C8: when the foreign configure fails, init returns the error, the state
\* stays Uninitialized, the context lock and the global lock are released
\* (the latter not poisoned), and an init that finds the state Uninitialized
\* goes on to configure.
C8_ConfigureFailure ==
    [][\A t \in Threads :
         /\ call[t].op = "init" /\ call[t].c_arg.ret = "RCL_RET_ERROR"
              => /\ GLOBAL_LOG_CONTEXT' = "None"
                 /\ pc'[t] \in {"init_configured", "init_err", "idle"}
                 /\ Ends(t) => /\ last'.result = "err"
                               /\ last'.thread = t
                               /\ lock_owner' = NoThread
                               /\ ~poisoned'
                               /\ \A c \in Contexts : rcl_context_mtx'[c] # t
         /\ pc[t] = "init_is_some" /\ GLOBAL_LOG_CONTEXT = "None" /\ pc'[t] # pc[t]
              => pc'[t] = "init_ctx_lock"
      ]_vars

\* After a failed configure, a later init is inside configure again.
C8_Witness ==
    /\ count.configure_failed >= 1
    /\ last.result = "err"
    /\ GLOBAL_LOG_CONTEXT = "None"
    /\ \E t \in Threads : pc[t] = "init_in_configure" /\ last.thread # NoThread

\* C9 (as claimed): set_logger_level with a name that holds a terminator
\* returns an error and makes no foreign call.
C9_SetLevelNulName ==
    last.call.op = "set_logger_level" /\ HasNul(last.call.arg.name)
        => last.result = "err" /\ last.call.made = << >>

\* C10 (as claimed): set_logger_level with a valid name gives exactly one
\* rcutils_logging_set_logger_level call, made during that call (so calls in
\* sequence keep their order), with that call's own name and severity code.
C10_SetLevelOnce ==
    last.call.op = "set_logger_level" /\ ~HasNul(last.call.arg.name)
        => /\ last.result \in {"ok", "err"}
           /\ last.call.made =
                <<[fn |-> "rcutils_logging_set_logger_level",
                   a |-> [NoCArg EXCEPT !.name = last.call.arg.name,
                                        !.severity = LogSeverity[last.call.arg.severity]]]>>

\* Thread t waits for a mutex of this module that another call, or its own
\* call, holds.
WaitsForLock(t) ==
    \/ AtLock(t) /\ ~MutexAvailable
    \/ pc[t] = "drop_deadlock"

\* C11 (as claimed): whenever some call is in progress, at least one thread
\* in a call is not waiting for a lock: the threads in calls are never all
\* blocked on locks.
C11_NoDeadlock ==
    (\E t \in Threads : pc[t] # "idle")
        => \E t \in Threads : pc[t] # "idle" /\ ~WaitsForLock(t)

\* The context mutexes that thread t holds.
ContextsHeld(t) == {c \in Contexts : rcl_context_mtx[c] = t}

\* C12: a thread that holds a context mutex is inside init and holds the
\* global mutex (so the context mutex is taken after, and released before,
\* the global one); a thread that waits for the global mutex holds no context
\* mutex; and a step of set_logger_level, log or drop leaves the context
\* mutexes alone.
C12_LockOrder ==
    /\ [](\A t \in Threads :
            /\ ContextsHeld(t) # {} => call[t].op = "init" /\ lock_owner = t
            /\ AtLock(t) \/ pc[t] \in {"drop_nested_lock", "drop_deadlock"}
                  => ContextsHeld(t) = {})
    /\ [][\A t \in Threads :
             pc'[t] # pc[t] /\ call[t].op \in {"set_logger_level", "log", "drop"}
                 => rcl_context_mtx' = rcl_context_mtx
         ]_vars

\* A thread inside init holds both mutexes while another waits for the
\* global one.
C12_Witness ==
    \E t, u \in Threads :
        /\ t # u
        /\ ContextsHeld(t) # {}
        /\ lock_owner = t
        /\ AtLock(u)

\* Some thread is between the first and the last line of log.
InLog(t) == call[t].op = "log" /\ pc[t] # "idle"

\* C13 (as claimed): at most one log location is allocated at any time, it
\* belongs to a log call that holds the lock, and none is left allocated when
\* no thread is inside log, whichever way the log call ended.
C13_LocationFreed ==
    /\ heap <= 1
    /\ heap = 1 => \E t \in Threads : InLog(t) /\ lock_owner = t

\* The rcutils severity code that carries the name of a level.
ForeignCode(sev) ==
    CASE sev = "Debug" -> RCUTILS_LOG_SEVERITY_DEBUG
      [] sev = "Info"  -> RCUTILS_LOG_SEVERITY_INFO
      [] sev = "Warn"  -> RCUTILS_LOG_SEVERITY_WARN
      [] sev = "Error" -> RCUTILS_LOG_SEVERITY_ERROR
      [] sev = "Fatal" -> RCUTILS_LOG_SEVERITY_FATAL

\* The one foreign call that set_logger_level(name, sev) is to make.
SetLevelCall(name, sev) ==
    [fn |-> "rcutils_logging_set_logger_level",
     a |-> [NoCArg EXCEPT !.name = name, !.severity = ForeignCode(sev)]]

\* C14 (as claimed): between its lock and its return set_logger_level sees
\* the Option it found, unchanged, and a call with a valid name, whatever the
\* Option holds, reaches the foreign set-level primitive once and returns.
C14_SetLevelIgnoresState ==
    /\ \A t \in Threads :
          pc[t] \in {"set_level", "set_in_level"}
              => GLOBAL_LOG_CONTEXT = call[t].seen
    /\ last.call.op = "set_logger_level" /\ ~HasNul(last.call.arg.name)
          => last.result # "panic" /\ Len(last.call.made) = 1

\* C15 (as claimed): a set_logger_level that returns while the Option is
\* None returns Ok and has made no foreign call.
C15_SetLevelNoOp ==
    /\ last.call.op = "set_logger_level"
    /\ last.call.seen = "None"
    /\ last.result # "panic"
    => last.result = "ok" /\ last.call.made = <<>>

\* C15 (amended): a set_logger_level that returns, Ok or Err, while the
\* Option is None has made exactly one rcutils_logging_set_logger_level call,
\* with its own name and the code of its own level.
C15_SetLevelUninitialized ==
    /\ last.call.op = "set_logger_level"
    /\ last.call.seen = "None"
    /\ last.result # "panic"
    => last.call.made = <<SetLevelCall(last.call.arg.name, last.call.arg.severity)>>

\* A set_logger_level has returned Err while the Option was None, after its
\* foreign call.
C15_Witness ==
    /\ last.call.op = "set_logger_level"
    /\ last.call.seen = "None"
    /\ last.result = "err"
    /\ Len(last.call.made) = 1

\* The severity codes that reached a foreign primitive in the call of t.
CodesPassed(t) ==
    {call[t].made[i].a.severity :
        i \in {j \in 1..Len(call[t].made) :
                 call[t].made[j].fn \in
                     {"rcutils_logging_set_logger_level", "rcutils_log",
                      "rclrc_logging_output_handler",
                      "rcl_logging_multiple_output_handler"}}}

\* C16: `severity as c_int` is defined on the five levels and on nothing
\* else, gives each level the rcutils code of its name, gives different
\* levels different codes, in the order Debug < Info < Warn < Error < Fatal;
\* and the only code a foreign primitive receives in a call is the code of
\* that call's level.
C16_SeverityMapping ==
    /\ Severities = {"Debug", "Info", "Warn", "Error", "Fatal"}
    /\ \A s \in Severities : as_c_int(s) = ForeignCode(s)
    /\ \A s, u \in Severities : s # u => as_c_int(s) # as_c_int(u)
    /\ as_c_int("Debug") < as_c_int("Info")
    /\ as_c_int("Info") < as_c_int("Warn")
    /\ as_c_int("Warn") < as_c_int("Error")
    /\ as_c_int("Error") < as_c_int("Fatal")
    /\ \A t \in Threads : CodesPassed(t) \subseteq {ForeignCode(call[t].arg.severity)}
    /\ rcl.scratch # NoCArg
          => \E s \in Severities : rcl.scratch.severity = ForeignCode(s)

\* rcutils_log has received the code of Warn, and then a set-level call is
\* under way with the code of another level.
C16_Witness ==
    /\ last.call.op = "log"
    /\ last.call.arg.severity = "Warn"
    /\ \E i \in 1..Len(last.call.made) :
          /\ last.call.made[i].fn = "rcutils_log"
          /\ last.call.made[i].a.severity = RCUTILS_LOG_SEVERITY_WARN
    /\ \E t \in Threads :
          /\ pc[t] = "set_in_level"
          /\ rcl.scratch.severity # RCUTILS_LOG_SEVERITY_WARN

\* The number of rcl_logging_configure_with_output_handler calls that have
\* returned RCL_RET_OK.
SuccessfulConfigures ==
    count.configure - count.configure_failed
        - Cardinality({t \in Threads : pc[t] = "init_in_configure"})

\* C17: the foreign configure runs only while the Option is None and after
\* as many finalizes as successful configures; the foreign finalize runs only
\* while the Option is Some and after one more successful configure than
\* earlier finalizes; so the two alternate, configure first.  A drop that
\* finds None makes no foreign call, and its step changes neither the Option,
\* nor the foreign state, nor the heap, nor the health of the mutex.
C17_Alternation ==
    /\ [](/\ \A t \in Threads :
              pc[t] = "init_in_configure"
                  => GLOBAL_LOG_CONTEXT = "None" /\ SuccessfulConfigures = count.fini
          /\ \A t \in Threads :
              pc[t] = "drop_in_fini"
                  => GLOBAL_LOG_CONTEXT = "Some" /\ SuccessfulConfigures = count.fini
          /\ count.fini <= SuccessfulConfigures
          /\ SuccessfulConfigures <= count.fini + 1
          /\ last.call.op = "drop" /\ last.call.seen = "None"
                => last.call.made = <<>>)
    /\ [][\A t \in Threads :
             pc[t] = "drop_is_none" /\ pc'[t] = "idle"
                 => /\ GLOBAL_LOG_CONTEXT = "None"
                    /\ UNCHANGED <<GLOBAL_LOG_CONTEXT, poisoned, rcl_context_mtx,
                                   rcl, heap, count>>
         ]_vars

\* After a configure that failed and one that succeeded, a drop is inside
\* rcl_logging_fini.
C17_Witness ==
    /\ count.configure = 2
    /\ count.configure_failed = 1
    /\ count.fini = 1
    /\ \E t \in Threads : pc[t] = "drop_in_fini"

\* In the record m of a call, each rclrc_logging_output_handler entry is
\* followed by one rcl_logging_multiple_output_handler entry with the same
\* arguments (or is the last entry while the handler is still running), and
\* each rcl_logging_multiple_output_handler entry follows such an entry.
RelayForwardsOnce(m, running) ==
    \A i \in 1..Len(m) :
        /\ m[i].fn = "rclrc_logging_output_handler"
              => IF i = Len(m)
                 THEN running
                 ELSE /\ m[i + 1].fn = "rcl_logging_multiple_output_handler"
                      /\ m[i + 1].a = m[i].a
        /\ m[i].fn = "rcl_logging_multiple_output_handler"
              => i > 1 /\ m[i - 1].fn = "rclrc_logging_output_handler"

C19_ContextReleasedBeforeConfigure ==
    \A t \in Threads : pc[t] = "init_in_configure" => ContextsHeld(t) = {}

\* C19 (amended): from before the call of
\* rcl_logging_configure_with_output_handler until after its return the
\* thread in init holds the mutex of its context together with the global
\* mutex; it holds no context mutex when it stores Some, when it returns the
\* error, or outside a call.
C19_ContextHeldAcrossConfigure ==
    \A t \in Threads :
        /\ pc[t] \in {"init_configure", "init_in_configure", "init_configured"}
              => /\ rcl_context_mtx[call[t].arg.ctx] = t
                 /\ lock_owner = t
        /\ pc[t] \in {"init_store", "init_err", "idle"} => ContextsHeld(t) = {}

\* A thread is inside the foreign configure and holds the mutex of the
\* context whose arguments it passed.
C19_Witness ==
    \E t \in Threads :
        /\ pc[t] = "init_in_configure"
        /\ ContextsHeld(t) = {call[t].arg.ctx}

\* The last call to end is a set_logger_level or a log (with the Option Some)
\* that panicked on an argument with an embedded NUL.
ConversionFailed ==
    /\ last.result = "panic"
    /\ last.call.made = <<>>
    /\ \/ last.call.op = "set_logger_level" /\ HasNul(last.call.arg.name)
       \/ last.call.op = "log" /\ last.call.seen = "Some" /\ ~NulFree(last.call.arg)

\* C20 (as claimed): after a call has failed on a string conversion the
\* global mutex is free of that call and usable: the next lock().unwrap()
\* succeeds.
C20_ConversionFailureHarmless ==
    ConversionFailed => ~poisoned /\ lock_owner # last.thread

====
